---- MODULE Spec2Model ----
(***************************************************************************)
(* Model of src/dynamo/runner.py: the configuration expander               *)
(* (load_config, dict_product, _unpack_config), the trial runner (run,     *)
(* _iter_op_device, _iter_cfg, _check_run) and the pickle record stream    *)
(* (pickle.dump on a buffered file object, _unpick).                       *)
(*                                                                         *)
(* Python values are tagged records: [t |-> "int", n |-> 3],               *)
(* [t |-> "list", items |-> <<...>>], ...  A Python dict is the sequence   *)
(* of its <<key, value>> items in insertion order.                         *)
(***************************************************************************)
EXTENDS Integers, Sequences, FiniteSets, TLC

VARIABLES
    doc,            \* the YAML document read by load_config (a dict)
    cudaAvailable,  \* whether the host has a CUDA device
    pc,             \* position of main()/run()
    configs,        \* value returned by load_config
    vi,             \* index into _iter_op_device()
    ci,             \* index into _iter_cfg(configs)
    ti,             \* index into cfg['threads']
    x,              \* primary input of the current combination
    kwargs,         \* resolved kwargs of the current combination
    probed,         \* callable invoked by the last _check_run
    fpbuf,          \* write buffer of the file object fp
    file,           \* bytes of the output file on disk
    produced,       \* history: measurements returned by the Timer, in order
    attempted,      \* history: combinations whose loop body was entered
    results,        \* ab_results, what _unpick returned
    arg,            \* argument handed to _unpack_config (pure-function check)
    unpacked,       \* result of _unpack_config(arg)
    loaded          \* result of load_config(doc) (pure-function check)

vars == <<doc, cudaAvailable, pc, configs, vi, ci, ti, x, kwargs, probed,
          fpbuf, file, produced, attempted, results, arg, unpacked, loaded>>

----------------------------------------------------------------------------
(* Bounds of the model *)

MaxDim == 5
MaxOnesLen == 5
MaxVals == 2
BufSize == 7

----------------------------------------------------------------------------
(* Python values *)

I(n) == [t |-> "int", n |-> n]
F(w, f) == [t |-> "float", whole |-> w, frac |-> f]
S(s) == [t |-> "str", s |-> s]
None == [t |-> "none"]
L(items) == [t |-> "list", items |-> items]
D(d) == [t |-> "dict", d |-> d]
Partial(shape) == [t |-> "partial", func |-> "create_ones", shape |-> shape]

Ok(v) == [ok |-> TRUE, val |-> v]
Raise(e) == [ok |-> FALSE, err |-> e]

HasKey(d, k) == \E j \in 1..Len(d) : d[j][1] = k
Get(d, k) == d[CHOOSE j \in 1..Len(d) : d[j][1] = k][2]

callable(v) == v.t = "partial"

\* characters of the strings that occur as values in the modelled documents
Chars(s) ==
    CASE s = "cv" -> <<S("c"), S("v")>>
      [] s = "" -> <<>>
      [] s = "threads" -> <<S("t"), S("h"), S("r"), S("e"), S("a"), S("d"), S("s")>>
      [] OTHER -> <<S(s)>>

\* iter(v): lists and strings are iterable, scalars are not
Iterable(v) == v.t \in {"list", "str"}
Iter(v) == IF v.t = "list" THEN v.items ELSE Chars(v.s)

\* int(x)
IntOk(v) == v.t \in {"int", "float"}
IntOf(v) == IF v.t = "int" THEN v.n ELSE v.whole

\* index of the first element of s satisfying Test, 0 if none
SelectFirst(s, j0, Test(_)) ==
    IF \E j \in j0..Len(s) : Test(s[j])
    THEN CHOOSE j \in j0..Len(s) : Test(s[j]) /\ \A k \in j0..(j - 1) : ~Test(s[k])
    ELSE 0

----------------------------------------------------------------------------
(* Config Expander *)

DEFAULT_CONFIGS == <<"batch_sizes", "resolutions", "threads", "import_from">>
DefaultNames == {DEFAULT_CONFIGS[j] : j \in 1..Len(DEFAULT_CONFIGS)}

\* the variant that lets the global section win over the operator section
_unpack_config_global_first(config_name, data, global_data) ==
    IF HasKey(global_data, config_name) THEN Ok(Get(global_data, config_name))
    ELSE IF HasKey(data, config_name) THEN Ok(Get(data, config_name))
    ELSE Raise("KeyError")

_unpack_config_or_load_global(config_name, data, global_data) ==
    IF HasKey(data, config_name) THEN Ok(Get(data, config_name))
    ELSE IF HasKey(global_data, config_name) THEN Ok(Get(global_data, config_name))
    ELSE Raise("KeyError")

\* the off-by-one variant of the length test of line 144
ones_shape_gt2(o) ==
    IF o.t = "list" /\ Len(o.items) > 2
    THEN IF \A j \in 1..Len(o.items) : IntOk(o.items[j])
         THEN Ok([j \in 1..Len(o.items) |-> IntOf(o.items[j])])
         ELSE Raise("ValueError")
    ELSE IF o.t = "list" /\ Len(o.items) = 1
    THEN IF IntOk(o.items[1])
         THEN Ok(<<IntOf(o.items[1]), IntOf(o.items[1])>>)
         ELSE Raise("ValueError")
    ELSE Raise("UnboundLocalError")

\* the if/elif that binds `shape`; with neither branch taken the name is
\* unbound when line 149 reads it
ones_shape(o) ==
    IF o.t = "list" /\ Len(o.items) >= 2
    THEN IF \A j \in 1..Len(o.items) : IntOk(o.items[j])
         THEN Ok([j \in 1..Len(o.items) |-> IntOf(o.items[j])])
         ELSE Raise("ValueError")
    ELSE IF o.t = "list" /\ Len(o.items) = 1
    THEN IF IntOk(o.items[1])
         THEN Ok(<<IntOf(o.items[1]), IntOf(o.items[1])>>)
         ELSE Raise("ValueError")
    ELSE Raise("UnboundLocalError")

_unpack_config(i) ==
    IF i.t = "dict"
    THEN IF HasKey(i.d, "ones")
         THEN LET shape == ones_shape(Get(i.d, "ones")) IN
              IF shape.ok THEN Ok(Partial(shape.val)) ELSE shape
         ELSE Raise("NotImplementedError")
    ELSE Ok(i)

RECURSIVE product(_)
\* itertools.product(*values): the last iterable varies fastest
product(values) ==
    IF Len(values) = 0 THEN << <<>> >>
    ELSE LET head == Iter(values[1])
             rest == product(Tail(values))
             n == Len(rest)
         IN  [j \in 1..(Len(head) * n) |->
                 <<head[((j - 1) \div n) + 1]>> \o rest[((j - 1) % n) + 1]]

dict_product(data) ==
    LET prod_cases == SelectSeq(data, LAMBDA p : ~callable(p[2]))
        others == SelectSeq(data, LAMBDA p : callable(p[2]))
        values == [j \in 1..Len(prod_cases) |-> prod_cases[j][2]]
    IN  IF \E j \in 1..Len(values) : ~Iterable(values[j])
        THEN Raise("TypeError")
        ELSE LET elements == product(values) IN
             Ok([e \in 1..Len(elements) |->
                    [j \in 1..Len(prod_cases) |-> <<prod_cases[j][1], elements[e][j]>>]
                    \o others])

\* the `if` of the inner dict comprehension of load_config
KwargFilter(cn, cv) ==
    ~(cv.t = "str" /\ cv.s \in DefaultNames) /\ cn # "no_args"

\* {cn: _unpack_config(cv) for cn, cv in v.items() if ...}
SectionKwargSpace(v) ==
    LET kept == SelectSeq(v, LAMBDA p : KwargFilter(p[1], p[2]))
        bad == SelectFirst(kept, 1, LAMBDA p : ~_unpack_config(p[2]).ok)
    IN  IF bad # 0 THEN Raise(_unpack_config(kept[bad][2]).err)
        ELSE Ok([j \in 1..Len(kept) |-> <<kept[j][1], _unpack_config(kept[j][2]).val>>])

\* the descriptor dict built for one element lc of dict_product
Descriptor(k, v, lc, global_config) ==
    LET missing == SelectFirst(DEFAULT_CONFIGS, 1,
                     LAMBDA cn : ~_unpack_config_or_load_global(cn, v, global_config).ok)
    IN  IF missing # 0 THEN Raise("KeyError")
        ELSE Ok([module |-> k, kwargs |-> lc,
                 batch_sizes |-> _unpack_config_or_load_global("batch_sizes", v, global_config).val,
                 resolutions |-> _unpack_config_or_load_global("resolutions", v, global_config).val,
                 threads |-> _unpack_config_or_load_global("threads", v, global_config).val,
                 import_from |-> _unpack_config_or_load_global("import_from", v, global_config).val])

\* the descriptors of one operator section, or the first error raised
SectionDescriptors(k, v, global_config) ==
    LET space == SectionKwargSpace(v) IN
    IF ~space.ok THEN space
    ELSE LET lcs == dict_product(space.val) IN
         IF ~lcs.ok THEN lcs
         ELSE IF Len(lcs.val) = 0 THEN Ok(<<>>)
         ELSE LET first == Descriptor(k, v, lcs.val[1], global_config) IN
              IF ~first.ok THEN first
              ELSE Ok([j \in 1..Len(lcs.val) |->
                         Descriptor(k, v, lcs.val[j], global_config).val])

RECURSIVE LoadSections(_, _, _)
LoadSections(items, global_config, acc) ==
    IF Len(items) = 0 THEN Ok(acc)
    ELSE IF items[1][1] = "global" THEN LoadSections(Tail(items), global_config, acc)
    ELSE LET r == SectionDescriptors(items[1][1], items[1][2].d, global_config) IN
         IF ~r.ok THEN r
         ELSE LoadSections(Tail(items), global_config, acc \o r.val)

load_config(data) ==
    IF ~HasKey(data, "global") THEN Raise("KeyError")
    ELSE LoadSections(data, Get(data, "global").d, <<>>)

----------------------------------------------------------------------------
(* Inputs of the pure-function checks *)

NotRun == [ok |-> FALSE, err |-> "not run"]

Dims == {I(n) : n \in 1..MaxDim}
SeqsUpTo(X, n) == UNION {[1..m -> X] : m \in 0..n}

\* values of the `ones` key: integer lists, lists holding other scalars, non-lists
OnesValues ==
    {L(q) : q \in SeqsUpTo(Dims, MaxOnesLen)}
    \cup {L(q) : q \in SeqsUpTo({I(2), F(2, 5), S("x"), None}, 2)}
    \cup {I(4), S("cv"), None, F(2, 5), D(<<>>)}

UnpackInputs ==
    {D(<<<<"ones", o>>>>) : o \in OnesValues}
    \cup {D(<<<<"ones", o>>, <<"dtype", S("x")>>>>) : o \in {L(<<I(4)>>), L(<<>>)}}
    \cup {D(<<<<"zeros", L(<<I(4)>>)>>>>), D(<<>>)}
    \cup {L(<<I(3), I(5)>>), L(<<>>), I(3), S("cv"), None}

\* values of the four default keys in the global section and in an override
GlobalValue(cn) ==
    CASE cn = "batch_sizes" -> L(<<I(1), None>>)
      [] cn = "resolutions" -> L(<<I(8)>>)
      [] cn = "threads" -> L(<<I(1)>>)
      [] cn = "import_from" -> S("kornia")

OverrideValue(cn) ==
    CASE cn = "batch_sizes" -> L(<<I(2)>>)
      [] cn = "resolutions" -> L(<<I(4)>>)
      [] cn = "threads" -> L(<<I(2), I(4)>>)
      [] cn = "import_from" -> S("cv")

DictOf(keys, Val(_)) ==
    LET present == SelectSeq(DEFAULT_CONFIGS, LAMBDA cn : cn \in keys)
    IN  [j \in 1..Len(present) |-> <<present[j], Val(present[j])>>]

GlobalKeySets == {DefaultNames, {}} \cup {DefaultNames \ {cn} : cn \in DefaultNames}

\* value lists of a kwarg: distinct literals, in either order
Literals == {I(3), I(5), I(7)}
LiteralLists ==
    {L(q) : q \in {q \in SeqsUpTo(Literals, MaxVals) :
                      \A j, k \in 1..Len(q) : j # k => q[j] # q[k]}}

KwargValues ==
    LiteralLists
    \cup {D(<<<<"ones", L(<<I(4)>>)>>>>), D(<<<<"ones", L(<<I(2), I(3)>>)>>>>),
          D(<<<<"ones", L(<<>>)>>>>), D(<<<<"zeros", L(<<I(4)>>)>>>>),
          I(3), S("threads"), S("")}

KwargDicts ==
    {<<>>}
    \cup {<<<<"a", v>>>> : v \in KwargValues}
    \cup {<<<<"a", v>>, <<"b", w>>>> : v \in KwargValues, w \in KwargValues}

NoArgs == <<<<"no_args", [t |-> "bool", b |-> TRUE]>>>>

SectionDicts ==
    {DictOf(ov, OverrideValue) \o na \o kw :
        ov \in SUBSET DefaultNames, na \in {<<>>, NoArgs}, kw \in KwargDicts}

\* a handful of sections for the documents that hold two operator sections
SmallSections ==
    {<<>>,
     <<<<"a", L(<<I(3), I(5)>>)>>>>,
     <<<<"a", L(<<>>)>>>>,
     <<<<"threads", L(<<I(2)>>)>>, <<"a", L(<<I(3)>>)>>>>,
     <<<<"a", D(<<<<"ones", L(<<I(4)>>)>>>>)>>, <<"b", L(<<I(3), I(5)>>)>>>>,
     <<<<"a", I(3)>>>>}

LoadDocs ==
    {<<<<"global", D(DictOf(g, GlobalValue))>>, <<"filters", D(v)>>>> :
        g \in GlobalKeySets, v \in SectionDicts}
    \cup {<<<<"filters", D(v)>>, <<"global", D(DictOf(g, GlobalValue))>>, <<"color", D(w)>>>> :
        g \in GlobalKeySets, v \in SmallSections, w \in SmallSections}

----------------------------------------------------------------------------
(* Specifications of the pure-function checks *)

Idle ==
    /\ cudaAvailable = TRUE
    /\ configs = <<>>
    /\ vi = 1 /\ ci = 1 /\ ti = 1
    /\ x = None /\ kwargs = <<>> /\ probed = None
    /\ fpbuf = <<>> /\ file = <<>>
    /\ produced = <<>> /\ attempted = <<>> /\ results = <<>>

InitUnpack ==
    /\ arg \in UnpackInputs
    /\ unpacked = NotRun
    /\ doc = <<>> /\ loaded = NotRun
    /\ pc = "unpack"
    /\ Idle

UnpackConfig ==
    /\ pc = "unpack"
    /\ unpacked' = _unpack_config(arg)
    /\ pc' = "unpacked"
    /\ UNCHANGED <<doc, cudaAvailable, configs, vi, ci, ti, x, kwargs, probed,
                   fpbuf, file, produced, attempted, results, arg, loaded>>

SpecUnpack == InitUnpack /\ [][UnpackConfig]_vars

InitLoad ==
    /\ doc \in LoadDocs
    /\ loaded = NotRun
    /\ arg = None /\ unpacked = NotRun
    /\ pc = "load"
    /\ Idle

LoadConfig ==
    /\ pc = "load"
    /\ loaded' = load_config(doc)
    /\ pc' = "loaded"
    /\ UNCHANGED <<doc, cudaAvailable, configs, vi, ci, ti, x, kwargs, probed,
                   fpbuf, file, produced, attempted, results, arg, unpacked>>

SpecLoad == InitLoad /\ [][LoadConfig]_vars

----------------------------------------------------------------------------
(* Claims about _unpack_config (checked under SpecUnpack) *)

IsOnesSpec(v) == v.t = "dict" /\ HasKey(v.d, "ones")
IntList(o) == o.t = "list" /\ \A j \in 1..Len(o.items) : o.items[j].t = "int"
Verbatim(o) == [j \in 1..Len(o.items) |-> o.items[j].n]

\* C8 as stated: [d] gives (d, d), a list of two or more integers gives exactly
\* that tuple, and the empty list, a list in the style of [1,2,3,4,5] (five or
\* more dimensions) and every non-list value raise an error.
C8_AsStated ==
    (pc = "unpacked" /\ IsOnesSpec(arg)) =>
        LET o == Get(arg.d, "ones") IN
        (IntList(o) \/ o.t # "list") =>
            IF o.t = "list" /\ Len(o.items) = 1
            THEN unpacked = Ok(Partial(<<o.items[1].n, o.items[1].n>>))
            ELSE IF o.t = "list" /\ Len(o.items) >= 2 /\ Len(o.items) < 5
            THEN unpacked = Ok(Partial(Verbatim(o)))
            ELSE ~unpacked.ok

\* C8 amended: [d] gives (d, d); every list of two or more elements, the
\* five-element [1,2,3,4,5] included, gives the tuple of its elements under
\* int(), which is the list itself when the elements are integers; the empty
\* list and every non-list value raise (UnboundLocalError), and a list with an
\* element int() rejects raises too.
C8_Shapes ==
    (pc = "unpacked" /\ IsOnesSpec(arg)) =>
        LET o == Get(arg.d, "ones") IN
        /\ (IntList(o) /\ Len(o.items) = 1) =>
               unpacked = Ok(Partial(<<o.items[1].n, o.items[1].n>>))
        /\ (IntList(o) /\ Len(o.items) >= 2) =>
               unpacked = Ok(Partial(Verbatim(o)))
        /\ (o.t = "list" /\ Len(o.items) >= 1 /\ ~IntList(o)) =>
               IF \A j \in 1..Len(o.items) : o.items[j].t \in {"int", "float"}
               THEN /\ unpacked.ok
                    /\ Len(unpacked.val.shape) = IF Len(o.items) = 1 THEN 2 ELSE Len(o.items)
                    /\ \A j \in 1..Len(o.items) :
                          unpacked.val.shape[j] =
                              IF o.items[j].t = "int" THEN o.items[j].n ELSE o.items[j].whole
               ELSE ~unpacked.ok
        /\ (o.t # "list" \/ o = L(<<>>)) =>
               (~unpacked.ok /\ unpacked.err = "UnboundLocalError")

C8_Witness ==
    /\ pc = "unpacked"
    /\ arg = D(<<<<"ones", L(<<I(1), I(2), I(3), I(4), I(5)>>)>>>>)
    /\ unpacked = Ok(Partial(<<1, 2, 3, 4, 5>>))

----------------------------------------------------------------------------
(* Claims about load_config (checked under SpecLoad) *)

Reserved == DefaultNames \cup {"no_args"}
Sections(data) == SelectSeq(data, LAMBDA p : p[1] # "global")
GlobalOf(data) == Get(data, "global").d
DescriptorsOf(k) == SelectSeq(loaded.val, LAMBDA c : c.module = k)
Pairs(d) == {d[j] : j \in 1..Len(d)}
Field(c, cn) ==
    CASE cn = "batch_sizes" -> c.batch_sizes
      [] cn = "resolutions" -> c.resolutions
      [] cn = "threads" -> c.threads
      [] cn = "import_from" -> c.import_from

RECURSIVE Prod(_)
Prod(ns) == IF Len(ns) = 0 THEN 1 ELSE ns[1] * Prod(Tail(ns))

\* the section's keys other than the four defaults and no_args
Remaining(v) == SelectSeq(v, LAMBDA p : p[1] \notin Reserved)
\* a section whose remaining values are value lists or well-formed `ones` specs
PlainSection(v) ==
    \A p \in Pairs(Remaining(v)) :
        p[2].t = "list" \/ (IsOnesSpec(p[2]) /\ _unpack_config(p[2]).ok)

\* C3 as stated: one descriptor per element of the cartesian product of the
\* value lists of the remaining keys, none missing, none twice, no reserved key
\* in any kwargs, every generator present unchanged in every kwargs.
C3_AsStated ==
    (pc = "loaded" /\ loaded.ok) =>
        \A s \in Pairs(Sections(doc)) :
            LET v == s[2].d
                ds == DescriptorsOf(s[1])
                lists == SelectSeq(Remaining(v), LAMBDA p : p[2].t = "list")
                gens == SelectSeq(Remaining(v), LAMBDA p : p[2].t # "list")
            IN  PlainSection(v) =>
                /\ Len(ds) = Prod([j \in 1..Len(lists) |-> Len(lists[j][2].items)])
                /\ \A j, l \in 1..Len(ds) : j # l => ds[j].kwargs # ds[l].kwargs
                /\ \A j \in 1..Len(ds) :
                      /\ \A p \in Pairs(ds[j].kwargs) : p[1] \notin Reserved
                      /\ \A g \in Pairs(gens) :
                            <<g[1], _unpack_config(g[2]).val>> \in Pairs(ds[j].kwargs)
                /\ \A f \in [1..Len(lists) -> Literals] :
                      (\A j \in 1..Len(lists) :
                          \E e \in 1..Len(lists[j][2].items) : lists[j][2].items[e] = f[j])
                      => \E j \in 1..Len(ds) :
                            \A l \in 1..Len(lists) : <<lists[l][1], f[l]>> \in Pairs(ds[j].kwargs)

\* every descriptor carries the section's own value of each default key when
\* the section has the key, and the global value otherwise
DefaultsResolved ==
    loaded.ok =>
        \A j \in 1..Len(loaded.val) :
            LET c == loaded.val[j]
                v == Get(doc, c.module).d
            IN  \A cn \in DefaultNames :
                    Field(c, cn) = IF HasKey(v, cn) THEN Get(v, cn)
                                   ELSE Get(GlobalOf(doc), cn)

MissingDefault(v) ==
    \E cn \in DefaultNames : ~HasKey(v, cn) /\ ~HasKey(GlobalOf(doc), cn)

\* the section's expansion is empty: a value the comprehension of line 186
\* keeps, and dict_product multiplies out, is an empty list or string
ExpandsToNothing(v) ==
    \E p \in Pairs(v) :
        KwargFilter(p[1], p[2]) /\ Iterable(p[2]) /\ Len(Iter(p[2])) = 0

\* C4 as stated: own value else global value; and a key absent from a section
\* and from global makes load_config fail, whatever else the section holds.
C4_AsStated ==
    pc = "loaded" =>
        /\ DefaultsResolved
        /\ (\E s \in Pairs(Sections(doc)) : MissingDefault(s[2].d)) => ~loaded.ok

\* C4 amended: own value else global value; and a key absent from a section
\* and from global makes load_config fail unless that section's expansion is
\* empty (one of the values the code multiplies out is an empty list or an
\* empty string), in which
\* case the key is never looked up.
C4_Defaults ==
    pc = "loaded" =>
        /\ DefaultsResolved
        /\ (\E s \in Pairs(Sections(doc)) :
                MissingDefault(s[2].d) /\ ~ExpandsToNothing(s[2].d)) => ~loaded.ok

C4_Witness ==
    /\ pc = "loaded"
    /\ loaded.ok
    /\ \E j \in 1..Len(loaded.val) :
          LET c == loaded.val[j] IN
          /\ HasKey(Get(doc, c.module).d, "threads")
          /\ c.threads = OverrideValue("threads")
          /\ ~HasKey(Get(doc, c.module).d, "resolutions")
          /\ c.resolutions = GlobalValue("resolutions")

----------------------------------------------------------------------------
(* Input Materializer *)

\* torch.ones(..., device=device) raises on a host without the device
DeviceOk(device) == device = "cpu" \/ cudaAvailable

create_inputs(bs, res, out_t, device) ==
    IF res.t # "int" \/ bs.t \notin {"int", "none"} THEN Raise("TypeError")
    ELSE IF ~DeviceOk(device) THEN Raise("RuntimeError")
    ELSE LET chw == <<3, res.n, res.n>>
             shape == IF bs.t = "none" THEN chw ELSE <<bs.n>> \o chw
         IN  IF out_t = "tensor"
             THEN Ok([t |-> "tensor", shape |-> shape, device |-> device])
             ELSE Ok([t |-> "ndarray", shape |-> shape, device |-> "cpu"])

create_ones(shape, out_t, device) ==
    IF ~DeviceOk(device) THEN Raise("RuntimeError")
    ELSE IF out_t = "tensor"
    THEN Ok([t |-> "tensor", shape |-> shape, device |-> device])
    ELSE Ok([t |-> "ndarray", shape |-> shape, device |-> "cpu"])

_unpack_arg(a, out_t, device) ==
    IF callable(a) THEN create_ones(a.shape, out_t, device) ELSE Ok(a)

_build_kwargs(f_kwargs, out_t, device) ==
    IF \E j \in 1..Len(f_kwargs) : ~_unpack_arg(f_kwargs[j][2], out_t, device).ok
    THEN Raise("RuntimeError")
    ELSE Ok([j \in 1..Len(f_kwargs) |->
                <<f_kwargs[j][1], _unpack_arg(f_kwargs[j][2], out_t, device).val>>])

----------------------------------------------------------------------------
(* Trial Runner *)

Opt(name, fn) == [t |-> "opt", name |-> name, fn |-> fn]

_iters ==
    << [operator |-> "kornia_op", input_type |-> "tensor", device |-> "cpu", optimize |-> None],
       [operator |-> "kornia_op", input_type |-> "tensor", device |-> "cuda", optimize |-> None],
       [operator |-> "kornia_op", input_type |-> "tensor", device |-> "cpu",
        optimize |-> Opt("dynamo", "torch_dynamo_optimize")],
       [operator |-> "kornia_op", input_type |-> "tensor", device |-> "cuda",
        optimize |-> Opt("dynamo", "torch_dynamo_optimize")],
       [operator |-> "opencv_op", input_type |-> "numpy", device |-> "cpu", optimize |-> None] >>

\* optimize[0] + '_'
Underscored(name) == IF name = "dynamo" THEN "dynamo_" ELSE name

\* _opt is False without an optimizer, else the transform
_iter_op_device ==
    [j \in 1..Len(_iters) |->
        [operator |-> _iters[j].operator,
         input_type |-> _iters[j].input_type,
         device |-> _iters[j].device,
         _opt_name |-> IF _iters[j].optimize.t = "none" THEN ""
                       ELSE Underscored(_iters[j].optimize.name),
         _opt |-> IF _iters[j].optimize.t = "none" THEN "False"
                  ELSE _iters[j].optimize.fn]]

RECURSIVE Flatten(_)
Flatten(ss) == IF Len(ss) = 0 THEN <<>> ELSE ss[1] \o Flatten(Tail(ss))

\* the combinations of one descriptor: product(cfg['batch_sizes'], cfg['resolutions'])
CfgCombos(cfg) ==
    LET pr == product(<<cfg.batch_sizes, cfg.resolutions>>)
    IN  [j \in 1..Len(pr) |-> [cfg |-> cfg, bs |-> pr[j][1], res |-> pr[j][2]]]

\* the variant that walks the descriptors last to first
_iter_cfg_reversed(cfgs) ==
    Flatten([j \in 1..Len(cfgs) |-> CfgCombos(cfgs[Len(cfgs) + 1 - j])])

_iter_cfg(cfgs) ==
    Flatten([j \in 1..Len(cfgs) |-> CfgCombos(cfgs[j])])

\* operator.split("_")[0]
SplitHead(operator) ==
    CASE operator = "kornia_op" -> "kornia"
      [] operator = "opencv_op" -> "opencv"
      [] OTHER -> operator

\* str(tuple(v.shape)) if hasattr(v, 'shape') else str(v), per kwargs value
_args_values(kw) ==
    [j \in 1..Len(kw) |->
        IF kw[j][2].t \in {"tensor", "ndarray"}
        THEN [t |-> "tuple", items |-> kw[j][2].shape]
        ELSE kw[j][2]]

\* f'[{bs}, {res}, {_args_values_str}]'
SubLabel(bs, res, kw) == <<bs, res, _args_values(kw)>>

\* f'{_opt_name}{operator.split("_")[0]}_{device}'
Desc(variant) ==
    <<variant._opt_name, SplitHead(variant.operator), variant.device>>

\* the callable a call reaches: attribute `attr` of `module`, under `transform`
Callable(module, attr, transform) ==
    [module |-> module, attr |-> attr, transform |-> transform]

\* the variant of _check_run without the except clause
_check_run_reraise(module, operator, optimizer, outcome) ==
    [ret |-> outcome = "ok",
     raised |-> outcome # "ok",
     called |-> Callable(module, operator, optimizer)]

\* `outcome` is what the import, the attribute lookup and the call do:
\* "ok" or the name of the Exception raised
_check_run(module, operator, optimizer, outcome) ==
    [ret |-> outcome = "ok",
     raised |-> FALSE,
     called |-> Callable(module, operator, optimizer)]

\* the callable that stmt `operator(input, **kwargs)` reaches after
\* setup `from import_from import operator`: the module attribute itself
TimedCallable(import_from, operator) == Callable(import_from, operator, "False")

\* benchmark.Timer(...).blocked_autorange(): the Measurement
Measurement(import_from, variant, module_name, sub_label, num_threads) ==
    [stmt |-> TimedCallable(import_from, variant.operator),
     num_threads |-> num_threads,
     label |-> module_name,
     sub_label |-> sub_label,
     description |-> Desc(variant)]

----------------------------------------------------------------------------
(* Result Sink: pickle on a buffered binary file *)

\* pickle.dumps(obj): a frame opened by PROTO and closed by STOP
pickle_dumps(obj) == <<[op |-> "PROTO"], [op |-> "OBJ", v |-> obj], [op |-> "STOP"]>>

\* BufferedWriter.write(data): returns <<buffer, file>>
BufferedWrite(buf, disk, data) ==
    IF Len(buf) + Len(data) <= BufSize THEN <<buf \o data, disk>>
    ELSE IF Len(data) > BufSize THEN <<<<>>, disk \o buf \o data>>
    ELSE <<data, disk \o buf>>

\* pickle.load(fp) at offset pos
pickle_load(bytes, pos) ==
    IF pos > Len(bytes) THEN [ok |-> FALSE, err |-> "EOFError", pos |-> pos]
    ELSE IF bytes[pos].op # "PROTO" THEN [ok |-> FALSE, err |-> "UnpicklingError", pos |-> pos]
    ELSE IF pos + 2 > Len(bytes) THEN [ok |-> FALSE, err |-> "EOFError", pos |-> pos]
    ELSE IF bytes[pos + 1].op = "OBJ" /\ bytes[pos + 2].op = "STOP"
    THEN [ok |-> TRUE, val |-> bytes[pos + 1].v, pos |-> pos + 3]
    ELSE [ok |-> FALSE, err |-> "UnpicklingError", pos |-> pos]

RECURSIVE UnpickFrom(_, _, _)
UnpickFrom(bytes, pos, acc) ==
    LET r == pickle_load(bytes, pos) IN
    IF r.ok THEN UnpickFrom(bytes, r.pos, Append(acc, r.val))
    ELSE IF r.err = "EOFError" THEN Ok(acc)
    ELSE Raise(r.err)

\* the variant whose loop body runs once
_unpick_once(bytes) ==
    LET r == pickle_load(bytes, 1) IN
    IF r.ok THEN Ok(<<r.val>>) ELSE IF r.err = "EOFError" THEN Ok(<<>>) ELSE Raise(r.err)

_unpick(bytes) == UnpickFrom(bytes, 1, <<>>)

----------------------------------------------------------------------------
(* main() and run() as a state machine *)

RunGlobal(bs, res, threads) ==
    <<"global", D(<<<<"batch_sizes", L(bs)>>, <<"resolutions", L(res)>>,
                    <<"threads", L(threads)>>, <<"import_from", S("kornia")>>>>)>>

RunDocs ==
    { <<RunGlobal(<<I(1), None>>, <<I(8)>>, <<I(1), I(2)>>), <<"filters", D(<<>>)>>>>,
      <<RunGlobal(<<I(1)>>, <<I(8)>>, <<I(1)>>),
        <<"filters", D(<<<<"a", L(<<I(3), I(5)>>)>>,
                         <<"b", D(<<<<"ones", L(<<I(4)>>)>>>>)>>>>)>>>>,
      <<RunGlobal(<<I(2)>>, <<I(8)>>, <<I(1)>>),
        <<"filters", D(<<>>)>>, <<"color", D(<<<<"no_args", [t |-> "bool", b |-> TRUE]>>>>)>>>>,
      <<RunGlobal(<<I(1)>>, <<I(8)>>, <<>>), <<"filters", D(<<>>)>>>>,
      <<RunGlobal(<<I(1)>>, <<I(8)>>, <<I(1)>>), <<"filters", D(<<<<"a", L(<<>>)>>>>)>>>>,
      <<<<"global", D(<<<<"batch_sizes", L(<<I(1)>>)>>>>)>>, <<"filters", D(<<>>)>>>> }

\* a record left in the output file by an earlier run
StaleFile == pickle_dumps([label |-> "stale"])

\* what the import, the lookup and the call of a probe can do
ProbeOutcomes == {"ok", "Exception"}

Init ==
    /\ doc \in RunDocs
    /\ cudaAvailable \in BOOLEAN
    /\ file \in {<<>>, StaleFile}
    /\ pc = "main"
    /\ configs = <<>>
    /\ vi = 1 /\ ci = 1 /\ ti = 1
    /\ x = None /\ kwargs = <<>> /\ probed = None
    /\ fpbuf = <<>>
    /\ produced = <<>> /\ attempted = <<>> /\ results = <<>>
    /\ arg = None /\ unpacked = NotRun /\ loaded = NotRun

Combos == _iter_cfg(configs)
NumVariants == Len(_iter_op_device)
Threads(cfg) == Iter(cfg.threads)

\* where the loops of run() go after combination <<v, c>> is finished
NextPc(v, c) == IF c < Len(Combos) \/ v < NumVariants THEN "loop" ELSE "report"
NextVi(v, c) == IF c < Len(Combos) \/ v >= NumVariants THEN v ELSE v + 1
NextCi(v, c) == IF c < Len(Combos) THEN c + 1 ELSE IF v < NumVariants THEN 1 ELSE c

\* main(): load_config, then run() opens the output file with mode 'wb'
Main ==
    /\ pc = "main"
    /\ LET r == load_config(doc) IN
       IF ~r.ok
       THEN /\ pc' = "config_error"
            /\ UNCHANGED <<configs, file>>
       ELSE /\ configs' = r.val
            /\ file' = <<>>
            /\ pc' = IF Len(_iter_cfg(r.val)) = 0 THEN "report" ELSE "loop"
    /\ UNCHANGED <<doc, cudaAvailable, vi, ci, ti, x, kwargs, probed, fpbuf,
                   produced, attempted, results, arg, unpacked, loaded>>

\* lines 240-271 and 302-307: materialize the inputs, probe, branch
EnterCombination ==
    /\ pc = "loop"
    /\ \E outcome \in ProbeOutcomes :
        LET variant == _iter_op_device[vi]
            combo == Combos[ci]
            xr == create_inputs(combo.bs, combo.res, variant.input_type, variant.device)
            kr == _build_kwargs(combo.cfg.kwargs, variant.input_type, variant.device)
            import_from == <<combo.cfg.import_from, combo.cfg.module>>
            chk == _check_run(import_from, variant.operator, variant._opt, outcome)
        IN  IF ~xr.ok \/ ~kr.ok
            THEN \* the exception leaves run(); the with block closes fp
                 /\ pc' = "raised"
                 /\ file' = file \o fpbuf
                 /\ fpbuf' = <<>>
                 /\ attempted' = Append(attempted,
                        [vi |-> vi, ci |-> ci, op |-> "none", outcome |-> "raised"])
                 /\ UNCHANGED <<vi, ci, ti, x, kwargs, probed>>
            ELSE /\ x' = xr.val
                 /\ kwargs' = kr.val
                 /\ probed' = chk.called
                 /\ IF chk.raised
                    THEN /\ pc' = "raised"
                         /\ file' = file \o fpbuf
                         /\ fpbuf' = <<>>
                         /\ attempted' = Append(attempted,
                                [vi |-> vi, ci |-> ci, op |-> outcome, outcome |-> "raised"])
                         /\ UNCHANGED <<vi, ci, ti>>
                    ELSE IF chk.ret /\ Len(Threads(combo.cfg)) > 0
                    THEN /\ pc' = "timing"
                         /\ ti' = 1
                         /\ attempted' = Append(attempted,
                                [vi |-> vi, ci |-> ci, op |-> outcome, outcome |-> "probed"])
                         /\ UNCHANGED <<vi, ci, file, fpbuf>>
                    ELSE /\ pc' = NextPc(vi, ci)
                         /\ vi' = NextVi(vi, ci)
                         /\ ci' = NextCi(vi, ci)
                         /\ attempted' = Append(attempted,
                                [vi |-> vi, ci |-> ci, op |-> outcome,
                                 outcome |-> IF chk.ret THEN "probed" ELSE "skipped"])
                         /\ file' = IF NextPc(vi, ci) = "report" THEN file \o fpbuf ELSE file
                         /\ fpbuf' = IF NextPc(vi, ci) = "report" THEN <<>> ELSE fpbuf
                         /\ UNCHANGED ti
    /\ UNCHANGED <<doc, cudaAvailable, configs, produced, results, arg, unpacked, loaded>>

\* lines 272-301: one pass of the loop over cfg['threads']
Timing ==
    /\ pc = "timing"
    /\ \E timed \in BOOLEAN :
        LET variant == _iter_op_device[vi]
            combo == Combos[ci]
            import_from == <<combo.cfg.import_from, combo.cfg.module>>
            bench_out == Measurement(import_from, variant, combo.cfg.module,
                                     SubLabel(combo.bs, combo.res, kwargs),
                                     Threads(combo.cfg)[ti])
            w == BufferedWrite(fpbuf, file, pickle_dumps(bench_out))
            last == ti >= Len(Threads(combo.cfg))
            closing == last /\ NextPc(vi, ci) = "report"
        IN  IF ~timed
            THEN \* blocked_autorange raises; the with block closes fp
                 /\ pc' = "raised"
                 /\ file' = file \o fpbuf
                 /\ fpbuf' = <<>>
                 /\ UNCHANGED <<vi, ci, ti, produced>>
            ELSE /\ produced' = Append(produced,
                        [rec |-> bench_out, vi |-> vi, ci |-> ci, ti |-> ti,
                         probed |-> probed])
                 /\ file' = IF closing THEN w[2] \o w[1] ELSE w[2]
                 /\ fpbuf' = IF closing THEN <<>> ELSE w[1]
                 /\ pc' = IF last THEN NextPc(vi, ci) ELSE "timing"
                 /\ ti' = IF last THEN ti ELSE ti + 1
                 /\ vi' = IF last THEN NextVi(vi, ci) ELSE vi
                 /\ ci' = IF last THEN NextCi(vi, ci) ELSE ci
    /\ UNCHANGED <<doc, cudaAvailable, configs, x, kwargs, probed, attempted,
                   results, arg, unpacked, loaded>>

\* lines 309-311: read the stream back for the report
Report ==
    /\ pc = "report"
    /\ LET r == _unpick(file) IN
       IF r.ok THEN results' = r.val /\ pc' = "done"
               ELSE pc' = "raised" /\ UNCHANGED results
    /\ UNCHANGED <<doc, cudaAvailable, configs, vi, ci, ti, x, kwargs, probed,
                   fpbuf, file, produced, attempted, arg, unpacked, loaded>>

\* the process dies inside the with block: what fp still buffers is lost
Kill ==
    /\ pc \in {"loop", "timing"}
    /\ pc' = "killed"
    /\ fpbuf' = <<>>
    /\ UNCHANGED <<doc, cudaAvailable, configs, vi, ci, ti, x, kwargs, probed,
                   file, produced, attempted, results, arg, unpacked, loaded>>

Next == Main \/ EnterCombination \/ Timing \/ Report \/ Kill

Spec == Init /\ [][Next]_vars

----------------------------------------------------------------------------
(* Claims about run() (checked under Spec) *)

Recs(ps) == [j \in 1..Len(ps) |-> ps[j].rec]
RecordsOf(v, c) == SelectSeq(produced, LAMBDA p : p.vi = v /\ p.ci = c)
Running == pc \in {"loop", "timing", "report", "done"}
IsLastCombo(v, c) == v = NumVariants /\ c = Len(Combos)
SuccCombo(v, c) == IF c < Len(Combos) THEN <<v, c + 1>> ELSE <<v + 1, 1>>
ProbeFailed(a) == a.op \notin {"ok", "none"}

\* C1: a probe that raises an Exception is turned into False: nothing leaves
\* run(), no record is written for the combination, the next combination of
\* the enumeration is the next one attempted, and a later combination whose
\* probe succeeds enters its timings and, once finished, has one record per
\* thread count.
C1_ProbeFailureIsolated ==
    \A j \in 1..Len(attempted) :
        LET a == attempted[j] IN
        ProbeFailed(a) =>
            /\ a.outcome = "skipped"
            /\ Len(RecordsOf(a.vi, a.ci)) = 0
            /\ IF j < Len(attempted)
               THEN <<attempted[j + 1].vi, attempted[j + 1].ci>> = SuccCombo(a.vi, a.ci)
               ELSE \/ pc = "killed"
                    \/ pc = "loop" /\ <<vi, ci>> = SuccCombo(a.vi, a.ci)
                    \/ pc \in {"report", "done"} /\ IsLastCombo(a.vi, a.ci)
            /\ \A k \in (j + 1)..Len(attempted) :
                  attempted[k].op = "ok" =>
                      /\ attempted[k].outcome = "probed"
                      /\ k < Len(attempted) =>
                            Len(RecordsOf(attempted[k].vi, attempted[k].ci))
                                = Len(Threads(Combos[attempted[k].ci].cfg))

C1_Witness ==
    \E j, k \in 1..Len(attempted) :
        /\ j < k
        /\ ProbeFailed(attempted[j])
        /\ attempted[k].op = "ok"
        /\ Len(RecordsOf(attempted[k].vi, attempted[k].ci)) > 0

\* C2 as stated: whatever step of a combination fails (create_inputs,
\* _build_kwargs, the probe, a timing), no exception leaves run(): the sweep
\* is never cut short.
C2_AsStated == pc # "raised"

RECURSIVE SumCombos(_)
SumCombos(cfgs) ==
    IF Len(cfgs) = 0 THEN 0
    ELSE Len(Iter(cfgs[1].batch_sizes)) * Len(Iter(cfgs[1].resolutions))
         + SumCombos(Tail(cfgs))

\* C5 as stated: when run() is over, variants x sum(|batch_sizes| x
\* |resolutions|) combinations were attempted, each with one record per thread
\* count (probe succeeded) or none (probe failed), and the file holds at most
\* attempted x |threads| records.
C5_AsStated ==
    pc \in {"done", "raised"} =>
        /\ Len(attempted) = NumVariants * SumCombos(configs)
        /\ \A j \in 1..Len(attempted) :
              LET a == attempted[j] IN
              Len(RecordsOf(a.vi, a.ci)) =
                  IF a.op = "ok" THEN Len(Threads(Combos[a.ci].cfg)) ELSE 0
        /\ _unpick(file).ok
        /\ \A c \in 1..Len(configs) :
              Len(Threads(configs[c])) > 0 =>
                  Len(_unpick(file).val) <= Len(attempted) * Len(Threads(configs[c]))

\* C6: once run() has read the stream back, ab_results holds exactly the
\* measurements that succeeded, in the order they were appended, and the file
\* still decodes to the same sequence.
C6_ReadBack ==
    pc = "done" =>
        /\ results = Recs(produced)
        /\ _unpick(file) = Ok(results)

C6_Witness ==
    /\ pc = "done"
    /\ Len(produced) >= 3
    /\ results = Recs(produced)

\* C7 as stated: whenever run() is about to start the next timing or the next
\* combination, and after a crash at any such point, the file on disk decodes
\* to every measurement produced so far.
C7_AsStated ==
    pc \in {"loop", "timing", "killed"} => _unpick(file) = Ok(Recs(produced))

\* C10 as stated: the callable the Timer measures is the callable the probe
\* invoked, so a record is labelled with an optimizer prefix exactly when it
\* measures the transformed operator.
C10_AsStated ==
    \A j \in 1..Len(produced) :
        /\ produced[j].rec.stmt = produced[j].probed
        /\ (produced[j].rec.description[1] # "") <=> (produced[j].rec.stmt.transform # "False")


\* C9 as stated: in the stream of records, the records that carry the same
\* sub-label are contiguous.
C9_AsStated ==
    \A i, j, k \in 1..Len(produced) :
        (i < j /\ j < k /\ produced[i].rec.sub_label = produced[k].rec.sub_label)
            => produced[j].rec.sub_label = produced[i].rec.sub_label

\* the nested enumeration, by index: descriptor d, batch size b, resolution r
\* of the c-th combination
Offset(d) == SumCombos(SubSeq(configs, 1, d - 1))
ComboIndex(c) ==
    CHOOSE dbr \in UNION {{<<d, b, r>> : b \in 1..Len(Iter(configs[d].batch_sizes)),
                                         r \in 1..Len(Iter(configs[d].resolutions))} :
                          d \in 1..Len(configs)} :
        Offset(dbr[1]) + (dbr[2] - 1) * Len(Iter(configs[dbr[1]].resolutions)) + dbr[3] = c

LexLess(p, q) ==
    \/ p[1] < q[1]
    \/ p[1] = q[1] /\ p[2] < q[2]
    \/ p[1] = q[1] /\ p[2] = q[2] /\ p[3] < q[3]

\* C9 amended: records are appended in the nested order variant, then
\* (descriptor, batch size, resolution), then thread count, each record built
\* from the values at its place in that order, so the records of one
\* (variant, descriptor, batch size, resolution) combination are contiguous;
\* the stream holds them in that order.  Records with equal sub-labels need
\* not be contiguous.
C9_NestedOrder ==
    /\ \A j \in 1..Len(produced) :
          LET p == produced[j]
              dbr == ComboIndex(p.ci)
              cfg == configs[dbr[1]]
              variant == _iters[p.vi]
          IN  /\ p.rec.label = cfg.module
              /\ p.rec.sub_label[1] = Iter(cfg.batch_sizes)[dbr[2]]
              /\ p.rec.sub_label[2] = Iter(cfg.resolutions)[dbr[3]]
              /\ Len(p.rec.sub_label[3]) = Len(cfg.kwargs)
              /\ \A a \in 1..Len(cfg.kwargs) :
                    callable(cfg.kwargs[a][2])
                        => p.rec.sub_label[3][a].items = cfg.kwargs[a][2].shape
              /\ \A a \in 1..Len(cfg.kwargs) :
                    ~callable(cfg.kwargs[a][2])
                        => p.rec.sub_label[3][a] = cfg.kwargs[a][2]
              /\ p.rec.num_threads = Iter(cfg.threads)[p.ti]
              /\ p.rec.description[3] = variant.device
              /\ p.rec.description[2] = SplitHead(variant.operator)
    /\ \A j \in 1..(Len(produced) - 1) :
          LexLess(<<produced[j].vi, produced[j].ci, produced[j].ti>>,
                  <<produced[j + 1].vi, produced[j + 1].ci, produced[j + 1].ti>>)
    /\ (Running \/ pc = "raised") => _unpick(file \o fpbuf) = Ok(Recs(produced))

C9_Witness ==
    \E i, j, k \in 1..Len(produced) :
        /\ i < j /\ j < k
        /\ produced[i].rec.sub_label = produced[k].rec.sub_label
        /\ produced[j].rec.sub_label # produced[i].rec.sub_label
        /\ produced[i].vi < produced[k].vi

====
